---- MODULE Spec2Model ----
(***************************************************************************)
(* Shared expense ledger (src/main.py): users, groups joined by invite     *)
(* code, memberships, per-group categories and income/expense records.     *)
(*                                                                         *)
(* The store is the PostgreSQL database the schema of init_db is written   *)
(* for: SERIAL columns draw their ids from a sequence that is advanced     *)
(* even by an INSERT that fails, REAL is a 4-byte float, a transaction     *)
(* opened by engine.begin() commits or rolls back as a whole, and a        *)
(* statement that violates a constraint raises.                            *)
(*                                                                         *)
(* Text is modelled as a sequence of one-character strings wherever the    *)
(* code formats, strips or pattern-matches it (the time column and the     *)
(* LIKE pattern); names that are only compared are TLA+ strings.           *)
(***************************************************************************)
EXTENDS Integers, Sequences, FiniteSets, Bags

VARIABLES users,        \* table users: rows [id, username]
          user_seq,     \* last value drawn from the sequence of users.id
          groups,       \* table groups: rows [group_id, creator_id]
          memberships,  \* table memberships: a bag of rows [user_id, group_id]
          categories,   \* table categories: rows [group_id, type, name]
          records,      \* table records
          record_seq,   \* last value drawn from the sequence of records.id
          checked,      \* add_record requests between has_access and the INSERT
          last          \* the response of the handler that returned last

vars == <<users, user_seq, groups, memberships, categories, records, record_seq,
          checked, last>>

db == <<users, user_seq, groups, memberships, categories, records, record_seq>>

----------------------------------------------------------------------------
(* Bounds of the model. *)

MaxUserSeq == 2
MaxRecordSeq == 1
MaxChecked == 1
MaxQueryRecords == 3
MaxRecentRecords == 11

----------------------------------------------------------------------------
(* Literals of the code. *)

\* filter_type's default, the sentinel '全部'
ALL == "all"
\* record type '收入'
INCOME == "income"
\* record type '支出'
EXPENSE == "expense"
\* the message '成功' of a successful write
OK_MESSAGE == "ok"
\* get_records keeps res["data"][:10]
RecentLimit == 10
\* an Optional request parameter that was not given
None == <<>>
\* an Optional[int] request parameter that was given
Some(n) == <<n>>
\* a group_id that is absent: None or the empty string, both falsy
NoGroup == ""

----------------------------------------------------------------------------
(* Text. *)

Digits == <<"0", "1", "2", "3", "4", "5", "6", "7", "8", "9">>

\* str(n) of a natural number
RECURSIVE Str(_)
Str(n) == IF n < 10 THEN <<Digits[n + 1]>>
          ELSE Str(n \div 10) \o <<Digits[(n % 10) + 1]>>

\* f'{n:02d}' of a natural number
Pad2(n) == IF n < 10 THEN <<"0">> \o Str(n) ELSE Str(n)

\* s.lstrip(c)
RECURSIVE LStrip(_, _)
LStrip(s, c) == IF s # <<>> /\ Head(s) = c THEN LStrip(Tail(s), c) ELSE s

\* s.rstrip(c)
RECURSIVE RStrip(_, _)
RStrip(s, c) == IF s # <<>> /\ s[Len(s)] = c
                THEN RStrip(SubSeq(s, 1, Len(s) - 1), c) ELSE s

\* s.strip(c)
Strip(s, c) == RStrip(LStrip(s, c), c)

\* Python's truth value of an Optional[int]: None and 0 are false
Truthy(o) == o # None /\ o[1] # 0

\* the LIKE pattern search_records builds from year, month and day
DatePattern(year, month, day) ==
    LET y == IF Truthy(year) THEN Str(year[1]) ELSE <<>>
        m == IF Truthy(month) THEN Pad2(month[1]) ELSE <<>>
        d == IF Truthy(day) THEN Pad2(day[1]) ELSE <<>>
        date_part == Strip(y \o <<"-">> \o m \o <<"-">> \o d, "-")
    IN  date_part \o <<"%">>

\* SQL: s LIKE p, where % matches any run of characters and _ any one
RECURSIVE Like(_, _)
Like(s, p) ==
    IF p = <<>> THEN s = <<>>
    ELSE IF Head(p) = "%"
         THEN \E k \in 0..Len(s) : Like(SubSeq(s, k + 1, Len(s)), Tail(p))
         ELSE /\ s # <<>>
              /\ Head(p) = "_" \/ Head(p) = Head(s)
              /\ Like(Tail(s), Tail(p))

\* the order of the characters a time string is made of
CharOrder == <<" ", "-", "0", "1", "2", "3", "4", "5", "6", "7", "8", "9", ":">>

CharRank(c) == CHOOSE i \in 1..Len(CharOrder) : CharOrder[i] = c

\* SQL: a < b on TEXT
RECURSIVE TextLess(_, _)
TextLess(a, b) ==
    IF b = <<>> THEN FALSE
    ELSE IF a = <<>> THEN TRUE
    ELSE IF Head(a) = Head(b) THEN TextLess(Tail(a), Tail(b))
    ELSE CharRank(Head(a)) < CharRank(Head(b))

----------------------------------------------------------------------------
(* Numbers. *)

Abs(a) == IF a < 0 THEN -a ELSE a

\* the spacing of the 4-byte floats around a whole number a >= 0
RECURSIVE Ulp(_)
Ulp(a) == IF a < 16777216 THEN 1 ELSE 2 * Ulp(a \div 2)

\* a whole amount as the REAL column keeps it: rounded to a 24-bit significand,
\* ties to even
ToReal(a) ==
    LET u == Ulp(Abs(a))
        q == Abs(a) \div u
        r == Abs(a) % u
        up == 2 * r > u \/ (2 * r = u /\ q % 2 = 1)
        mag == (IF up THEN q + 1 ELSE q) * u
    IN  IF a < 0 THEN -mag ELSE mag

----------------------------------------------------------------------------
(* The values requests are drawn from. *)

Usernames == {"alice", "bob"}

\* the invite codes random.choices can draw; two of them stand for all
Codes == {"AB12CD", "ZZ99ZZ"}

\* "2026-02-14"
T_260214 == <<"2", "0", "2", "6", "-", "0", "2", "-", "1", "4">>
\* "2026-03-01"
T_260301 == <<"2", "0", "2", "6", "-", "0", "3", "-", "0", "1">>
\* "2025-02-14"
T_250214 == <<"2", "0", "2", "5", "-", "0", "2", "-", "1", "4">>

\* the request bodies of add_record the ledger specification draws from
AddRecordInputs ==
    [username : Usernames, group_id : Codes, amount : {100}, type : {INCOME},
     category : {"food"}, note : {""}, time : {T_260214}]

\* the request bodies of add_record the specification of add_record draws from;
\* 16777217 = 2^24 + 1 is the least whole amount a 4-byte float cannot hold
AmountInputs ==
    [username : Usernames, group_id : Codes, amount : {40, 100, 16777217},
     type : {INCOME, EXPENSE}, category : {"food"}, note : {"", "lunch"},
     time : {T_260214}]

\* the stored records the query specification starts from: incomes of 100 at
\* three times and expenses of 40 at two in group AB12CD, an income in group
\* ZZ99ZZ
QueryRows ==
    [group_id : {"AB12CD"}, amount : {100}, type : {INCOME},
     time : {T_260214, T_260301, T_250214}]
    \cup [group_id : {"AB12CD"}, amount : {40}, type : {EXPENSE},
          time : {T_260214, T_260301}]
    \cup [group_id : {"ZZ99ZZ"}, amount : {100}, type : {INCOME},
          time : {T_260214}]

\* the stored records the recent-activity specification starts from
RecentRows ==
    [group_id : {"AB12CD"}, amount : {100}, type : {INCOME},
     time : {T_260214, T_250214}]

----------------------------------------------------------------------------
(* Queries on the tables. *)

\* SELECT id FROM users WHERE username = :u
SelectUserId(username) == {u.id : u \in {x \in users : x.username = username}}

\* SELECT 1 FROM groups WHERE group_id = :g
GroupExists(group_id) == \E g \in groups : g.group_id = group_id

\* has_access without the condition on m.group_id
has_access_any_group(username, group_id) ==
    \E m \in BagToSet(memberships), u \in users :
        m.user_id = u.id /\ u.username = username

\* has_access without the join on memberships
has_access_registered(username, group_id) ==
    \E u \in users : u.username = username

\* SELECT 1 FROM memberships m JOIN users u ON m.user_id = u.id
\* WHERE u.username = :u AND m.group_id = :g
has_access(username, group_id) ==
    \E m \in BagToSet(memberships), u \in users :
        m.user_id = u.id /\ u.username = username /\ m.group_id = group_id

\* INSERT INTO memberships on a table without the UNIQUE constraint
InsertMembershipNoUnique(ms, user_id, group_id) ==
    [ok |-> TRUE,
     rows |-> ms (+) SetToBag({[user_id |-> user_id, group_id |-> group_id]})]

\* INSERT INTO memberships under UNIQUE(user_id, group_id): the statement
\* raises when the row is there
InsertMembership(ms, user_id, group_id) ==
    LET row == [user_id |-> user_id, group_id |-> group_id]
    IN  IF BagIn(row, ms)
        THEN [ok |-> FALSE, rows |-> ms]
        ELSE [ok |-> TRUE, rows |-> ms (+) SetToBag({row})]

\* the response a handler returns or raises
Response(op, username, group_id, status, granted, body) ==
    [op |-> op, username |-> username, group_id |-> group_id, status |-> status,
     granted |-> granted, body |-> body]

----------------------------------------------------------------------------
(* Identity and groups. *)

\* the tables as init_db leaves a fresh database: all empty
Init ==
    /\ users = {}
    /\ user_seq = 0
    /\ groups = {}
    /\ memberships = EmptyBag
    /\ categories = {}
    /\ records = {}
    /\ record_seq = 0
    /\ checked = {}
    /\ last = Response("init_db", "", NoGroup, 200, FALSE, OK_MESSAGE)

\* POST /register: the id is drawn before UNIQUE(username) is checked
register(username) ==
    /\ user_seq < MaxUserSeq
    /\ user_seq' = user_seq + 1
    /\ IF \E u \in users : u.username = username
       THEN /\ users' = users
            /\ last' = Response("register", username, NoGroup, 400, FALSE, "")
       ELSE /\ users' = users \cup {[id |-> user_seq + 1, username |-> username]}
            /\ last' = Response("register", username, NoGroup, 200, FALSE, OK_MESSAGE)
    /\ UNCHANGED <<groups, memberships, categories, records, record_seq, checked>>

\* create_group without the INSERT of the creator's membership
create_group_txn_no_membership(username, code) ==
    LET uid_row == SelectUserId(username)
    IN  IF uid_row = {} \/ GroupExists(code)
        THEN [status |-> 500, groups |-> groups, memberships |-> memberships]
        ELSE LET uid == CHOOSE i \in uid_row : TRUE
             IN  [status |-> 200,
                  groups |-> groups \cup {[group_id |-> code, creator_id |-> uid]},
                  memberships |-> memberships]

\* the transaction of create_group and the handler's except clause: the
\* HTTPException(404) raised for an unknown username inside the try block is an
\* Exception, so the except clause answers 500 for it as for a failed INSERT
\* (an invite code that is already a group_id); engine.begin() rolls back
create_group_txn(username, code) ==
    LET uid_row == SelectUserId(username)
    IN  IF uid_row = {}
        THEN [status |-> 500, groups |-> groups, memberships |-> memberships]
        ELSE LET uid == CHOOSE i \in uid_row : TRUE
                 ins == InsertMembership(memberships, uid, code)
             IN  IF GroupExists(code) \/ ~ins.ok
                 THEN [status |-> 500, groups |-> groups,
                       memberships |-> memberships]
                 ELSE [status |-> 200,
                       groups |-> groups \cup {[group_id |-> code, creator_id |-> uid]},
                       memberships |-> ins.rows]

\* POST /create_group, with the code random.choices drew
create_group(username, code) ==
    LET txn == create_group_txn(username, code)
    IN  /\ groups' = txn.groups
        /\ memberships' = txn.memberships
        /\ last' = Response("create_group", username, code, txn.status, FALSE,
                            IF txn.status = 200 THEN code ELSE "")
        /\ UNCHANGED <<users, user_seq, categories, records, record_seq, checked>>

\* POST /join_group: the failed INSERT of a member is swallowed; the transaction
\* wrote nothing else
join_group(username, invite_code) ==
    LET uid_row == SelectUserId(username)
    IN  /\ IF uid_row = {} \/ ~GroupExists(invite_code)
           THEN /\ memberships' = memberships
                /\ last' = Response("join_group", username, invite_code, 404,
                                    FALSE, "")
           ELSE LET uid == CHOOSE i \in uid_row : TRUE
                IN  /\ memberships' = InsertMembership(memberships, uid, invite_code).rows
                    /\ last' = Response("join_group", username, invite_code, 200,
                                        FALSE, OK_MESSAGE)
        /\ UNCHANGED <<users, user_seq, groups, categories, records, record_seq,
                       checked>>

\* SELECT group_id FROM memberships m JOIN users u ON m.user_id = u.id
\* WHERE u.username = :u  (the order of the list is the store's: a set here)
MyGroups(username) ==
    {m.group_id : m \in {x \in BagToSet(memberships) :
                            \E u \in users : u.id = x.user_id /\ u.username = username}}

\* GET /get_my_groups
get_my_groups(username) ==
    /\ last' = Response("get_my_groups", username, NoGroup, 200, FALSE,
                        MyGroups(username))
    /\ UNCHANGED <<db, checked>>

----------------------------------------------------------------------------
(* Ledger and categories. *)

\* add_record up to its access check: 403 when has_access is false, else the
\* request goes on to its INSERT, a transaction of its own
add_record_check(data) ==
    /\ data \notin checked
    /\ IF has_access(data.username, data.group_id)
       THEN /\ Cardinality(checked) < MaxChecked
            /\ record_seq + Cardinality(checked) < MaxRecordSeq
            /\ checked' = checked \cup {data}
            /\ last' = last
       ELSE /\ checked' = checked
            /\ last' = Response("add_record", data.username, data.group_id, 403,
                                FALSE, "")
    /\ UNCHANGED db

\* the row INSERT INTO records stores: the amount goes into a REAL column
NewRecord(id, uid, data) ==
    [id |-> id, user_id |-> uid, amount |-> ToReal(data.amount), type |-> data.type,
     category |-> data.category, note |-> data.note, time |-> data.time,
     group_id |-> data.group_id]

\* add_record from its second transaction on: resolve the username, insert
add_record_insert(data) ==
    LET uid_row == SelectUserId(data.username)
    IN  /\ data \in checked
        /\ checked' = checked \ {data}
        /\ IF uid_row = {}
           THEN /\ UNCHANGED <<records, record_seq>>
                /\ last' = Response("add_record", data.username, data.group_id,
                                    404, TRUE, "")
           ELSE LET uid == CHOOSE i \in uid_row : TRUE
                IN  /\ record_seq' = record_seq + 1
                    /\ records' = records \cup {NewRecord(record_seq + 1, uid, data)}
                    /\ last' = Response("add_record", data.username, data.group_id,
                                        200, TRUE, OK_MESSAGE)
        /\ UNCHANGED <<users, user_seq, groups, memberships, categories>>

\* POST /add_category: no username among its parameters, no has_access call;
\* a duplicate under UNIQUE(group_id, type, name) is swallowed
add_category(group_id, type, name) ==
    /\ categories' = categories \cup {[group_id |-> group_id, type |-> type,
                                       name |-> name]}
    /\ last' = Response("add_category", "", group_id, 200, FALSE, OK_MESSAGE)
    /\ UNCHANGED <<users, user_seq, groups, memberships, records, record_seq,
                   checked>>

\* DELETE /delete_record: no username among its parameters, no has_access call
delete_record(record_id) ==
    /\ records' = {r \in records : r.id # record_id}
    /\ last' = Response("delete_record", "", NoGroup, 200, FALSE, OK_MESSAGE)
    /\ UNCHANGED <<users, user_seq, groups, memberships, categories, record_seq,
                   checked>>

\* SELECT r.*, u.username FROM records r JOIN users u ON r.user_id = u.id
\* WHERE r.group_id = :g AND r.time LIKE :p [AND r.type = :t]
SelectRecords(group_id, pattern, filter_type) ==
    {[id |-> r.id, user_id |-> r.user_id, amount |-> r.amount, type |-> r.type,
      category |-> r.category, note |-> r.note, time |-> r.time,
      group_id |-> r.group_id, username |-> u.username] :
        <<r, u>> \in {x \in records \X users :
                        /\ x[1].user_id = x[2].id
                        /\ x[1].group_id = group_id
                        /\ Like(x[1].time, pattern)
                        /\ filter_type # ALL => x[1].type = filter_type}}

\* ORDER BY r.time DESC, r.id DESC: row a comes before row b
ComesFirst(a, b) ==
    TextLess(b.time, a.time) \/ (a.time = b.time /\ a.id > b.id)

\* the rows in the order of ORDER BY: each row is placed after the rows that
\* come before it
RECURSIVE OrderBy(_)
OrderBy(rows) ==
    IF rows = {} THEN <<>>
    ELSE LET a == CHOOSE x \in rows : TRUE
             rest == OrderBy(rows \ {a})
             k == Cardinality({i \in 1..Len(rest) : ComesFirst(rest[i], a)})
         IN  SubSeq(rest, 1, k) \o <<a>> \o SubSeq(rest, k + 1, Len(rest))

\* df[df['type'] == t]['amount'].sum()
RECURSIVE SumOfType(_, _)
SumOfType(df, t) ==
    IF df = <<>> THEN 0
    ELSE (IF Head(df).type = t THEN Head(df).amount ELSE 0) + SumOfType(Tail(df), t)

ZeroSummary == [income |-> 0, expense |-> 0, balance |-> 0]

\* the summary with the expense added to the balance
SummaryAddsExpense(df) ==
    LET inc == SumOfType(df, INCOME)
        exp == SumOfType(df, EXPENSE)
    IN  [income |-> inc, expense |-> exp, balance |-> inc + exp]

\* the summary search_records computes from the rows it read
Summary(df) ==
    IF df = <<>> THEN ZeroSummary
    ELSE LET inc == SumOfType(df, INCOME)
             exp == SumOfType(df, EXPENSE)
         IN  [income |-> inc, expense |-> exp, balance |-> inc - exp]

\* what search_records returns
SearchResult(username, group_id, year, month, day, filter_type) ==
    IF group_id = NoGroup \/ ~has_access(username, group_id)
    THEN [data |-> <<>>, summary |-> ZeroSummary]
    ELSE LET df == OrderBy(SelectRecords(group_id, DatePattern(year, month, day),
                                         filter_type))
         IN  [data |-> df, summary |-> Summary(df)]

\* the response of a query: the handler's parameters and what it returns
QueryResponse(op, username, group_id, year, month, day, filter_type, body) ==
    [op |-> op, username |-> username, group_id |-> group_id, status |-> 200,
     granted |-> group_id # NoGroup /\ has_access(username, group_id),
     body |-> body, year |-> year, month |-> month, day |-> day,
     filter_type |-> filter_type]

\* GET /search_records
search_records(username, group_id, year, month, day, filter_type) ==
    /\ last' = QueryResponse("search_records", username, group_id, year, month, day,
                             filter_type,
                             SearchResult(username, group_id, year, month, day,
                                          filter_type))
    /\ UNCHANGED <<db, checked>>

\* GET /get_summary: search_records(username, group_id, year, month)["summary"]
get_summary(username, group_id, year, month) ==
    /\ last' = QueryResponse("get_summary", username, group_id, Some(year),
                             Some(month), None, ALL,
                             SearchResult(username, group_id, Some(year),
                                          Some(month), None, ALL).summary)
    /\ UNCHANGED <<db, checked>>

\* res["data"][:11]
FirstEleven(data) == SubSeq(data, 1, IF Len(data) < 11 THEN Len(data) ELSE 11)

\* res["data"][:10]
FirstTen(data) ==
    SubSeq(data, 1, IF Len(data) < RecentLimit THEN Len(data) ELSE RecentLimit)

\* GET /get_records
get_records(username, group_id) ==
    /\ last' = QueryResponse("get_records", username, group_id, None, None, None,
                             ALL,
                             [data |-> FirstTen(SearchResult(username, group_id, None,
                                                             None, None, ALL).data)])
    /\ UNCHANGED <<db, checked>>

----------------------------------------------------------------------------
(* Specifications. *)

\* groups and memberships, from an empty database
Next ==
    \/ \E u \in Usernames : register(u)
    \/ \E u \in Usernames, c \in Codes : create_group(u, c)
    \/ \E u \in Usernames, c \in Codes : join_group(u, c)
    \/ \E u \in Usernames : get_my_groups(u)

Spec == Init /\ [][Next]_vars

\* every writing handler and the gated read, from an empty database
NextLedger ==
    \/ \E u \in Usernames : register(u)
    \/ \E u \in Usernames, c \in Codes : create_group(u, c)
    \/ \E u \in Usernames, c \in Codes : join_group(u, c)
    \/ \E d \in AddRecordInputs : add_record_check(d)
    \/ \E d \in AddRecordInputs : add_record_insert(d)
    \/ \E c \in Codes : add_category(c, EXPENSE, "food")
    \/ \E i \in 1..MaxRecordSeq : delete_record(i)
    \/ \E u \in Usernames, g \in Codes \cup {NoGroup} :
           search_records(u, g, None, None, None, ALL)

SpecLedger == Init /\ [][NextLedger]_vars

\* the database after alice (id 1) and bob (id 2) registered and each created
\* a group: alice AB12CD, bob ZZ99ZZ
TwoGroups ==
    /\ users = {[id |-> 1, username |-> "alice"], [id |-> 2, username |-> "bob"]}
    /\ user_seq = 2
    /\ groups = {[group_id |-> "AB12CD", creator_id |-> 1],
                 [group_id |-> "ZZ99ZZ", creator_id |-> 2]}
    /\ memberships = SetToBag({[user_id |-> 1, group_id |-> "AB12CD"],
                               [user_id |-> 2, group_id |-> "ZZ99ZZ"]})
    /\ categories = {}
    /\ checked = {}
    /\ last = Response("create_group", "bob", "ZZ99ZZ", 200, FALSE, "ZZ99ZZ")

\* the records table after n calls of add_record, each by the creator of the
\* record's group, with request bodies drawn from rows
StoredRecords(rows, n) ==
    /\ record_seq = n
    /\ \E f \in [1..n -> rows] :
           records = {NewRecord(i, IF f[i].group_id = "AB12CD" THEN 1 ELSE 2,
                                [username |-> "", group_id |-> f[i].group_id,
                                 amount |-> f[i].amount, type |-> f[i].type,
                                 category |-> "food", note |-> "",
                                 time |-> f[i].time]) : i \in 1..n}

\* add_record and delete_record on the group of alice
InitAddRecord == TwoGroups /\ StoredRecords(QueryRows, 0)

NextAddRecord ==
    \/ \E d \in AmountInputs : add_record_check(d)
    \/ \E d \in AmountInputs : add_record_insert(d)
    \/ \E i \in 1..MaxRecordSeq : delete_record(i)

SpecAddRecord == InitAddRecord /\ [][NextAddRecord]_vars

\* the queries of a member on a ledger of up to MaxQueryRecords records
InitQuery == TwoGroups /\ \E n \in 0..MaxQueryRecords : StoredRecords(QueryRows, n)

NextQuery ==
    \/ \E y \in {None, Some(2026)}, m \in {None, Some(2)}, d \in {None, Some(14)},
          t \in {ALL, INCOME, EXPENSE} :
           search_records("alice", "AB12CD", y, m, d, t)
    \/ \E m \in {2, 3} : get_summary("alice", "AB12CD", 2026, m)

SpecQuery == InitQuery /\ [][NextQuery]_vars

\* the recent-activity view on a ledger of up to MaxRecentRecords records
InitRecent ==
    TwoGroups /\ \E n \in 0..MaxRecentRecords : StoredRecords(RecentRows, n)

NextRecent ==
    \/ get_records("alice", "AB12CD")
    \/ search_records("alice", "AB12CD", None, None, None, ALL)

SpecRecent == InitRecent /\ [][NextRecent]_vars

----------------------------------------------------------------------------
(* Vocabulary of the properties, stated on the tables themselves. *)

\* username names a user who has a membership row for group_id
Member(username, group_id) ==
    \E u \in users :
        /\ u.username = username
        /\ BagIn([user_id |-> u.id, group_id |-> group_id], memberships)

RecordsOf(group_id) == {r \in records : r.group_id = group_id}

CategoriesOf(group_id) == {c \in categories : c.group_id = group_id}

\* the sum of the amounts of a set of rows
RECURSIVE AmountOf(_)
AmountOf(rows) ==
    IF rows = {} THEN 0
    ELSE LET r == CHOOSE x \in rows : TRUE IN r.amount + AmountOf(rows \ {r})

\* the number a run of digits writes
RECURSIVE Number(_)
Number(s) ==
    IF s = <<>> THEN 0
    ELSE 10 * Number(SubSeq(s, 1, Len(s) - 1))
         + (CHOOSE n \in 0..9 : Digits[n + 1] = s[Len(s)])

\* the components of a time "YYYY-MM-DD..."
YearOf(time) == Number(SubSeq(time, 1, 4))
MonthOf(time) == Number(SubSeq(time, 6, 7))
DayOf(time) == Number(SubSeq(time, 9, 10))

\* the elements of a sequence
Range(seq) == {seq[i] : i \in 1..Len(seq)}

\* a record as search_records returns it, without the joined username
AsRecord(row) ==
    [id |-> row.id, user_id |-> row.user_id, amount |-> row.amount,
     type |-> row.type, category |-> row.category, note |-> row.note,
     time |-> row.time, group_id |-> row.group_id]

----------------------------------------------------------------------------
(* Properties. *)

\* C1: search_records for a username with no membership in the target group, or
\* with no group_id, answers 200 with no rows and the summary 0, 0, 0, whatever
\* records the group holds.
C1_SilentDeny ==
    (last.op = "search_records" /\ ~Member(last.username, last.group_id))
        => /\ last.status = 200
           /\ last.body = [data |-> <<>>,
                           summary |-> [income |-> 0, expense |-> 0, balance |-> 0]]

\* a non-member has searched a group that holds records
C1_Witness ==
    /\ last.op = "search_records"
    /\ last.group_id # NoGroup
    /\ ~Member(last.username, last.group_id)
    /\ \E u \in users : u.username = last.username
    /\ RecordsOf(last.group_id) # {}

\* C2: every step that changes the records or the categories of an existing
\* group g is the step of a handler whose has_access check passed for a member
\* of g.
C2_WritesAreGated ==
    [][\A g \in Codes :
          (/\ GroupExists(g)
           /\ RecordsOf(g)' # RecordsOf(g) \/ CategoriesOf(g)' # CategoriesOf(g))
              => /\ last'.granted
                 /\ last'.group_id = g
                 /\ Member(last'.username, g)]_vars

\* C3: the summary a member gets from search_records or get_summary is the sum
\* of the amounts of the income rows, the sum of the amounts of the expense
\* rows and their difference, over the records that pass the group, date and
\* type filters; the rows returned are exactly those records.
C3_SummaryArithmetic ==
    (last.op \in {"search_records", "get_summary"}
     /\ Member(last.username, last.group_id))
        => LET R == {r \in RecordsOf(last.group_id) :
                        /\ Like(r.time, DatePattern(last.year, last.month, last.day))
                        /\ last.filter_type # ALL => r.type = last.filter_type}
               income == AmountOf({r \in R : r.type = INCOME})
               expense == AmountOf({r \in R : r.type = EXPENSE})
               summary == IF last.op = "get_summary" THEN last.body
                          ELSE last.body.summary
           IN  /\ summary = [income |-> income, expense |-> expense,
                             balance |-> income - expense]
               /\ last.op = "search_records"
                      => {AsRecord(row) : row \in Range(last.body.data)} = R

\* a member's query with a date filter matched income and expense rows, left
\* out a record of the group, and another group holds records
C3_Witness ==
    /\ last.op \in {"search_records", "get_summary"}
    /\ Member(last.username, last.group_id)
    /\ last.month # None
    /\ LET summary == IF last.op = "get_summary" THEN last.body
                      ELSE last.body.summary
       IN  summary.income > 0 /\ summary.expense > 0 /\ summary.balance # 0
    /\ \E r \in records : r.group_id # last.group_id

\* C4: for a member's search, the rows returned with one supplied component of
\* (year, month, day) omitted include the rows returned with it supplied, and
\* every row returned agrees with every supplied component.
C4_OmittedComponentWidens ==
    (last.op = "search_records" /\ Member(last.username, last.group_id))
        => LET Rows(y, m, d) ==
                   Range(SearchResult(last.username, last.group_id, y, m, d,
                                      last.filter_type).data)
               got == Range(last.body.data)
           IN  /\ last.year # None => got \subseteq Rows(None, last.month, last.day)
               /\ last.month # None => got \subseteq Rows(last.year, None, last.day)
               /\ last.day # None => got \subseteq Rows(last.year, last.month, None)
               /\ \A row \in got :
                      /\ last.year # None => YearOf(row.time) = last.year[1]
                      /\ last.month # None => MonthOf(row.time) = last.month[1]
                      /\ last.day # None => DayOf(row.time) = last.day[1]

\* C5: every group has its creator among the users, has_access holds for the
\* creator and the group, and the creator's list of groups contains it; a
\* response of get_my_groups contains every group its user created.
C5_CreatorHasAccess ==
    /\ \A g \in groups :
          \E u \in users :
              /\ u.id = g.creator_id
              /\ has_access(u.username, g.group_id)
              /\ g.group_id \in MyGroups(u.username)
    /\ last.op = "get_my_groups"
           => \A g \in groups, u \in users :
                  (u.id = g.creator_id /\ u.username = last.username)
                      => g.group_id \in last.body

\* a user who created a group has listed their groups while another user exists
C5_Witness ==
    /\ last.op = "get_my_groups"
    /\ \E g \in groups, u \in users :
           u.id = g.creator_id /\ u.username = last.username
    /\ Cardinality(users) > 1

\* C6: join_group by an existing user with an existing invite code answers 200
\* and leaves exactly one membership row for the pair; when the row was there
\* already, the call changes no table.
C6_JoinIdempotent ==
    [][\A u \in Usernames, c \in Codes :
          (join_group(u, c) /\ SelectUserId(u) # {} /\ GroupExists(c))
              => LET row == [user_id |-> CHOOSE i \in SelectUserId(u) : TRUE,
                             group_id |-> c]
                 IN  /\ last'.status = 200
                     /\ CopiesIn(row, memberships') = 1
                     /\ BagIn(row, memberships) => db' = db]_vars

\* a user who was a member already (the creator) has joined the group again
C6_Witness ==
    /\ last.op = "join_group"
    /\ last.status = 200
    /\ \E g \in groups, u \in users :
           /\ g.group_id = last.group_id
           /\ u.username = last.username
           /\ u.id = g.creator_id

\* C7: add_record by a non-member answers 403 and changes no table; the INSERT
\* of an admitted request adds exactly one record, which carries the amount,
\* type, category, note, time and group_id of the request and the id of the
\* user named, and changes no other record.
C7_AddRecord ==
    [][\A d \in AmountInputs :
          /\ (add_record_check(d) /\ ~Member(d.username, d.group_id))
                 => last'.status = 403 /\ db' = db /\ checked' = checked
          /\ add_record_insert(d)
                 => \E r \in records' :
                        /\ r \notin records
                        /\ records' = records \cup {r}
                        /\ r.user_id \in SelectUserId(d.username)
                        /\ r.amount = d.amount
                        /\ r.type = d.type
                        /\ r.category = d.category
                        /\ r.note = d.note
                        /\ r.time = d.time
                        /\ r.group_id = d.group_id]_vars

\* C8: create_group for a username that names no user answers 404 and stores
\* neither a group nor a membership.
C8_UnknownUserNotFound ==
    [][\A u \in Usernames, c \in Codes :
          (create_group(u, c) /\ SelectUserId(u) = {})
              => /\ last'.status = 404
                 /\ groups' = groups
                 /\ memberships' = memberships]_vars

\* C9: get_records of a member returns min(10, n) of the n records of the
\* group, newest first (time descending, equal times by id descending), and
\* no record left out is newer than one returned.
C9_RecentActivity ==
    (last.op = "get_records" /\ Member(last.username, last.group_id))
        => LET G == RecordsOf(last.group_id)
               n == Cardinality(G)
               data == last.body.data
               Newer(a, b) == TextLess(b.time, a.time)
                              \/ (a.time = b.time /\ a.id > b.id)
           IN  /\ Len(data) <= 10
               /\ Len(data) = IF n < 10 THEN n ELSE 10
               /\ \A i \in 1..Len(data) : AsRecord(data[i]) \in G
               /\ \A i, j \in 1..Len(data) : i < j => Newer(data[i], data[j])
               /\ \A r \in G :
                      (\A i \in 1..Len(data) : AsRecord(data[i]) # r)
                          => \A i \in 1..Len(data) : Newer(data[i], r)

\* a member has asked for the recent records of a group of more than ten, two
\* of the rows returned having the same time
C9_Witness ==
    /\ last.op = "get_records"
    /\ Member(last.username, last.group_id)
    /\ Cardinality(RecordsOf(last.group_id)) > 10
    /\ \E i, j \in 1..Len(last.body.data) :
           i # j /\ last.body.data[i].time = last.body.data[j].time
    /\ \E r \in RecordsOf(last.group_id) :
           TextLess(r.time, last.body.data[1].time)

\* C10: every stored record names an existing group and a user who has a
\* membership in that group.
C10_AuthorIsMember ==
    \A r \in records :
        /\ \E g \in groups : g.group_id = r.group_id
        /\ \E u \in users :
               /\ u.id = r.user_id
               /\ BagIn([user_id |-> u.id, group_id |-> r.group_id], memberships)

\* a record written by a user who joined the group by its invite code
C10_Witness ==
    \E r \in records, g \in groups :
        /\ g.group_id = r.group_id
        /\ g.creator_id # r.user_id

====
